---- MODULE Spec2Model ----
(***************************************************************************)
(* A model of the flipdot display server (src/flipdot/server.py): the      *)
(* request dispatcher (process_message), the network acceptor              *)
(* (network_listen), config persistence (save_config / load_config) and    *)
(* the scheduler (control_loop), over the shared per-display state.        *)
(*                                                                         *)
(* Encodings of Python values:                                             *)
(*   None                  -> None == <<>>, Some(x) == <<x>>  (optionals)  *)
(*   message None (null)   -> NullMessage == [type |-> "null"]             *)
(*   duration/interval None-> 0 (both falsy: "x or y" treats them alike)   *)
(*   refresh_interval      -> [kind |-> "none" | "seconds" | "minute", ..] *)
(*   a dict iterated in insertion order -> a sequence of <<key, value>>    *)
(*   list indices and sequence_cur_pos keep Python's 0-based numbering     *)
(***************************************************************************)
EXTENDS Integers, Sequences, FiniteSets, TLC

(***************************************************************************)
(* Bounds of the model.                                                    *)
(***************************************************************************)
MaxConns == 2        \* connections the acceptor takes in one run
MaxElapsed == 7      \* seconds of simulated time after startup (SpecScheduler)
MaxElapsedDispatch == 3  \* the same, where the requests are what varies (Spec)
MaxStep == 2         \* longest gap between the starts of two ticks
MaxFaults == 1       \* hardware calls that fail in one run
MaxPending == 2      \* longest config_keys_changed a request may still extend
MaxMissing == 2      \* most payload bytes a peer leaves unsent before it closes
MaxElapsedInterleaved == 2  \* seconds after startup, passes taken step by step

(***************************************************************************)
(* Calendar and start of the clock: datetime.minute is                     *)
(* (seconds \div 60) % 60.  The run starts shortly before a minute         *)
(* boundary so that a crossing falls into the simulated time.              *)
(***************************************************************************)
SecondsPerMinute == 60
MinutesPerHour == 60
StartTime == 57

None == <<>>
Some(x) == <<x>>
IsNone(o) == o = <<>>
Get(o) == o[1]

Minute(t) == (t \div SecondsPerMinute) % MinutesPerHour

(***************************************************************************)
(* The displays registered at startup (display_hwconfig), in the order     *)
(* __init__ inserts them into the per-display dicts, and an id that is     *)
(* not registered.                                                         *)
(***************************************************************************)
DisplayOrder == <<"front", "side">>
Displays == {DisplayOrder[i] : i \in 1..Len(DisplayOrder)}
Ghost == "ghost"

ConfigKeys == {"backlight", "inverting", "active"}
DefaultConfig == [backlight |-> FALSE, inverting |-> FALSE, active |-> TRUE]

DefaultUpdateData ==
  [config_keys_changed |-> <<>>,
   message_changed |-> FALSE,
   sequence_cur_pos |-> None,
   sequence_last_switched |-> None,
   dynamic_submessages |-> [i \in {} |-> None]]

(***************************************************************************)
(* Submessages and messages, as FlipdotClient's builders lay them out.     *)
(* func "text" is a drawing function of the renderer; "explode" is one     *)
(* whose call raises; "nofunc" is a name the renderer does not provide.    *)
(***************************************************************************)
RefreshNone == [kind |-> "none"]
RefreshMinute == [kind |-> "minute"]
RefreshSeconds(n) == [kind |-> "seconds", n |-> n]

Truthy(refresh_interval) ==
  \/ refresh_interval.kind = "minute"
  \/ refresh_interval.kind = "seconds" /\ refresh_interval.n # 0

build_bitmap_submessage == [type |-> "bitmap"]
build_graphics_submessage(func, refresh_interval) ==
  [type |-> "graphics", func |-> func, refresh_interval |-> refresh_interval]

build_single_message(submessages, duration) ==
  [type |-> "single", duration |-> duration, submessages |-> submessages]
build_sequence_message(messages, interval) ==
  [type |-> "sequence", interval |-> interval, messages |-> messages]

NullMessage == [type |-> "null"]

\* submessage.get('refresh_interval', 0)
GetRefreshInterval(submessage) ==
  IF "refresh_interval" \in DOMAIN submessage
    THEN submessage.refresh_interval
    ELSE RefreshNone

Text(refresh_interval) == build_graphics_submessage("text", refresh_interval)

StaticMessage == build_single_message(<<build_bitmap_submessage>>, 0)
ClockMessage ==
  build_single_message(<<Text(RefreshMinute), Text(RefreshSeconds(2))>>, 0)
RotatingMessage ==
  build_sequence_message(
    <<build_single_message(<<build_bitmap_submessage>>, 0),
      build_single_message(<<Text(RefreshSeconds(2))>>, 3)>>,
    2)
LongSequence ==
  build_sequence_message(
    <<build_single_message(<<build_bitmap_submessage>>, 1),
      build_single_message(<<build_bitmap_submessage>>, 0),
      build_single_message(<<build_bitmap_submessage>>, 1)>>,
    1)
BrokenMessage ==
  build_single_message(
    <<build_graphics_submessage("explode", RefreshNone),
      build_graphics_submessage("nofunc", RefreshSeconds(2)),
      build_bitmap_submessage>>, 0)

(***************************************************************************)
(* Request envelopes, as FlipdotClient builds them.  A control body is the *)
(* dict of options in the order the request lists them.                    *)
(***************************************************************************)
build_control_message(display, message) ==
  [type |-> "control", display |-> display, message |-> message]
build_data_message(display, message) ==
  [type |-> "data", display |-> display, message |-> message]
build_config_query_message(displays, keys) ==
  [type |-> "query-config", displays |-> displays, keys |-> keys]
build_hwconfig_query_message == [type |-> "query-hwconfig"]
build_message_query_message(displays) ==
  [type |-> "query-message", displays |-> displays]
build_bitmap_query_message(displays) ==
  [type |-> "query-bitmap", displays |-> displays]

(***************************************************************************)
(* Replies.  A mutating request answers {'success', 'error'}; a query      *)
(* answers its result, a dict keyed by display id.                         *)
(***************************************************************************)
StatusReply(success, error) ==
  [kind |-> "status", success |-> success, error |-> error]
ResultReply(result) == [kind |-> "result", result |-> result]

\* reply.get('success'): no registered display is named 'success', so a
\* query result has no such key and .get gives None.
ReplyGetSuccess(reply) == reply.kind = "status" /\ reply.success

\* "if reply:" -- a dict is truthy when it is not empty
ReplyTruthy(reply) ==
  \/ reply.kind = "status"
  \/ reply.kind = "result" /\ DOMAIN reply.result # {}

(***************************************************************************)
(* The address filter.  An address is the string accept() reports, as the  *)
(* sequence of its characters; allowed_ip_match is the constructor's       *)
(* prefix.  "10.0.0.7" passes the filter "10.", "100.0.0.7" does not.      *)
(***************************************************************************)
allowed_ip_match == Some(<<"1", "0", ".">>)

AllowedPeer == <<"1", "0", ".", "0", ".", "0", ".", "7">>
OtherPeer == <<"1", "0", "0", ".", "0", ".", "0", ".", "7">>

\* ip.startswith(prefix)
startswith(ip, prefix) ==
  /\ Len(prefix) <= Len(ip)
  /\ SubSeq(ip, 1, Len(prefix)) = prefix

\* "allowed_ip_match is not None and not ip.startswith(allowed_ip_match)"
Filtered(ip) ==
  ~IsNone(allowed_ip_match) /\ ~startswith(ip, Get(allowed_ip_match))

(***************************************************************************)
(* State.                                                                  *)
(***************************************************************************)
VARIABLES
  config,            \* self.config: display -> option -> value
  update_data,       \* self.update_data: display -> schedule state
  current_message,   \* self.current_message: display -> raw Message
  current_bitmap,    \* self.current_bitmap: display -> last rendered frame
  saved,             \* the document in CONFIG_FILE, None while there is none
  listener,          \* network_listen: the connection being served
  sent,              \* what send_message last put on the wire, per connection
  loop,              \* control_loop: clock, minute record, position in a tick
  hardware,          \* what the controllers and renderers were last told
  faults             \* hardware calls that have failed so far

vars == <<config, update_data, current_message, current_bitmap, saved,
          listener, sent, loop, hardware, faults>>

display_hwconfig ==
  [d \in Displays |->
     IF d = "front" THEN [width |-> 126, height |-> 16, address |-> 0]
                    ELSE [width |-> 84, height |-> 16, address |-> 1]]

(***************************************************************************)
(* save_config: one control entry per key of self.config and one data      *)
(* entry per key of self.current_message, both in insertion order.         *)
(***************************************************************************)
ConfigKeyOrder == <<"backlight", "inverting", "active">>

\* ConfigItems with the last option left out of the saved entry
ConfigItemsDropsLast(config_d) ==
  [i \in 1..(Len(ConfigKeyOrder) - 1) |->
     <<ConfigKeyOrder[i], config_d[ConfigKeyOrder[i]]>>]

\* config.items()
ConfigItems(config_d) ==
  [i \in 1..Len(ConfigKeyOrder) |->
     <<ConfigKeyOrder[i], config_d[ConfigKeyOrder[i]]>>]

\* self.current_message.keys(): the registered displays, then any key a
\* request added afterwards
MessageKeys(cur_message) ==
  IF Ghost \in DOMAIN cur_message
    THEN Append(DisplayOrder, Ghost)
    ELSE DisplayOrder

save_config(cfg, cur_message) ==
  [config |->
     [i \in 1..Len(DisplayOrder) |->
        build_control_message(DisplayOrder[i], ConfigItems(cfg[DisplayOrder[i]]))],
   messages |->
     [i \in 1..Len(MessageKeys(cur_message)) |->
        build_data_message(MessageKeys(cur_message)[i],
                           cur_message[MessageKeys(cur_message)[i]])]]

(***************************************************************************)
(* process_message.  The result carries the state the request leaves       *)
(* behind, the reply, and whether the call raised (then there is no reply  *)
(* and the state is what the statements before the raise made of it).      *)
(***************************************************************************)
Outcome(cfg, upd, cur_message, doc, reply, raised) ==
  [config |-> cfg, update_data |-> upd, current_message |-> cur_message,
   saved |-> doc, reply |-> reply, raised |-> raised]

\* ControlItems that marks a changed key pending without recording its value
RECURSIVE ControlItemsKeepsOld(_, _, _, _)
ControlItemsKeepsOld(config_d, keys_changed, items, i) ==
  IF i > Len(items)
    THEN [config |-> config_d, config_keys_changed |-> keys_changed,
          success |-> TRUE, error |-> None]
    ELSE
      LET key == items[i][1]
          value == items[i][2]
      IN IF key \in DOMAIN config_d
           THEN IF config_d[key] # value
                  THEN ControlItemsKeepsOld(config_d, Append(keys_changed, key),
                                            items, i + 1)
                  ELSE ControlItemsKeepsOld(config_d, keys_changed, items, i + 1)
           ELSE [config |-> config_d, config_keys_changed |-> keys_changed,
                 success |-> FALSE,
                 error |-> Some(<<"Invalid configuration option", key>>)]

\* the loop over message['message'].items() of a control request, from item i
RECURSIVE ControlItems(_, _, _, _)
ControlItems(config_d, keys_changed, items, i) ==
  IF i > Len(items)
    THEN [config |-> config_d, config_keys_changed |-> keys_changed,
          success |-> TRUE, error |-> None]
    ELSE
      LET key == items[i][1]
          value == items[i][2]
      IN IF key \in DOMAIN config_d
           THEN IF config_d[key] # value
                  THEN ControlItems([config_d EXCEPT ![key] = value],
                                    Append(keys_changed, key), items, i + 1)
                  ELSE ControlItems(config_d, keys_changed, items, i + 1)
           ELSE [config |-> config_d, config_keys_changed |-> keys_changed,
                 success |-> FALSE,
                 error |-> Some(<<"Invalid configuration option", key>>)]

\* ProcessControl that saves before it applies the options
ProcessControlSavesFirst(message, cfg, upd, cur_message, doc) ==
  LET display == message.display IN
  IF message.message = <<>>
    THEN Outcome(cfg, upd, cur_message, Some(save_config(cfg, cur_message)),
                 Some(StatusReply(TRUE, None)), FALSE)
  ELSE IF display \notin DOMAIN cfg
    THEN Outcome(cfg, upd, cur_message, doc, None, TRUE)
  ELSE
    LET r == ControlItems(cfg[display], upd[display].config_keys_changed,
                          message.message, 1)
        cfg2 == [cfg EXCEPT ![display] = r.config]
        upd2 == [upd EXCEPT ![display].config_keys_changed =
                                  r.config_keys_changed]
    IN Outcome(cfg2, upd2, cur_message,
               IF r.success THEN Some(save_config(cfg, cur_message)) ELSE doc,
               Some(StatusReply(r.success, r.error)), FALSE)

ProcessControl(message, cfg, upd, cur_message, doc) ==
  LET display == message.display IN
  IF message.message = <<>>
    THEN \* nothing to iterate: self.config[display] is never touched
         Outcome(cfg, upd, cur_message, Some(save_config(cfg, cur_message)),
                 Some(StatusReply(TRUE, None)), FALSE)
  ELSE IF display \notin DOMAIN cfg
    THEN Outcome(cfg, upd, cur_message, doc, None, TRUE)   \* KeyError
  ELSE
    LET r == ControlItems(cfg[display], upd[display].config_keys_changed,
                          message.message, 1)
        cfg2 == [cfg EXCEPT ![display] = r.config]
        upd2 == [upd EXCEPT ![display].config_keys_changed =
                                  r.config_keys_changed]
    IN Outcome(cfg2, upd2, cur_message,
               IF r.success THEN Some(save_config(cfg2, cur_message)) ELSE doc,
               Some(StatusReply(r.success, r.error)), FALSE)

\* self.current_message[display] = ...: adds the key when it is new
SetItem(f, key, value) ==
  [k \in DOMAIN f \cup {key} |-> IF k = key THEN value ELSE f[k]]

\* ProcessData that marks every display's message changed
ProcessDataMarksAll(message, cfg, upd, cur_message, doc) ==
  LET display == message.display
      cur2 == SetItem(cur_message, display, message.message)
  IN IF display \notin DOMAIN upd
       THEN Outcome(cfg, upd, cur2, doc, None, TRUE)
       ELSE Outcome(cfg,
                    [d \in DOMAIN upd |-> [upd[d] EXCEPT !.message_changed = TRUE]],
                    cur2, Some(save_config(cfg, cur2)),
                    Some(StatusReply(TRUE, None)), FALSE)

ProcessData(message, cfg, upd, cur_message, doc) ==
  LET display == message.display
      cur2 == SetItem(cur_message, display, message.message)
  IN IF display \notin DOMAIN upd
       THEN Outcome(cfg, upd, cur2, doc, None, TRUE)       \* KeyError
       ELSE Outcome(cfg, [upd EXCEPT ![display].message_changed = TRUE], cur2,
                    Some(save_config(cfg, cur2)),
                    Some(StatusReply(TRUE, None)), FALSE)

\* message.get('displays'), defaulting to self.displays.keys()
RequestedDisplays(message) ==
  IF IsNone(message.displays) THEN Displays ELSE Get(message.displays)

ProcessQueryConfig(message, cfg, upd, cur_message, doc) ==
  LET displays == RequestedDisplays(message)
      keys == message.keys
  IN IF \E display \in displays : display \notin DOMAIN cfg
       THEN Outcome(cfg, upd, cur_message, doc, None, TRUE)    \* KeyError
       ELSE Outcome(cfg, upd, cur_message, doc,
              Some(ResultReply(
                [display \in displays |->
                   [key \in {k \in DOMAIN cfg[display] :
                               IsNone(keys) \/ k \in Get(keys)} |->
                      cfg[display][key]]])),
              FALSE)

\* ProcessQueryMessage that marks the displays it reads as changed
ProcessQueryMessageMarksRead(message, cfg, upd, cur_message, doc) ==
  LET displays == RequestedDisplays(message)
  IN IF \E display \in displays : display \notin DOMAIN cur_message
       THEN Outcome(cfg, upd, cur_message, doc, None, TRUE)
       ELSE Outcome(cfg,
              [d \in DOMAIN upd |->
                 IF d \in displays
                   THEN [upd[d] EXCEPT !.message_changed = TRUE]
                   ELSE upd[d]],
              cur_message, doc,
              Some(ResultReply([display \in displays |-> cur_message[display]])),
              FALSE)

ProcessQueryMessage(message, cfg, upd, cur_message, doc) ==
  LET displays == RequestedDisplays(message)
  IN IF \E display \in displays : display \notin DOMAIN cur_message
       THEN Outcome(cfg, upd, cur_message, doc, None, TRUE)    \* KeyError
       ELSE Outcome(cfg, upd, cur_message, doc,
              Some(ResultReply([display \in displays |-> cur_message[display]])),
              FALSE)

ProcessQueryBitmap(message, cfg, upd, cur_message, doc, cur_bitmap) ==
  LET displays == RequestedDisplays(message)
  IN IF \E display \in displays : display \notin DOMAIN cur_bitmap
       THEN Outcome(cfg, upd, cur_message, doc, None, TRUE)    \* KeyError
       ELSE Outcome(cfg, upd, cur_message, doc,
              Some(ResultReply([display \in displays |-> cur_bitmap[display]])),
              FALSE)

process_message(message, cfg, upd, cur_message, doc, cur_bitmap) ==
  CASE message.type = "control" ->
         ProcessControl(message, cfg, upd, cur_message, doc)
    [] message.type = "data" ->
         ProcessData(message, cfg, upd, cur_message, doc)
    [] message.type = "query-config" ->
         ProcessQueryConfig(message, cfg, upd, cur_message, doc)
    [] message.type = "query-hwconfig" ->
         Outcome(cfg, upd, cur_message, doc,
                 Some(ResultReply(display_hwconfig)), FALSE)
    [] message.type = "query-message" ->
         ProcessQueryMessage(message, cfg, upd, cur_message, doc)
    [] message.type = "query-bitmap" ->
         ProcessQueryBitmap(message, cfg, upd, cur_message, doc, cur_bitmap)
    [] OTHER ->
         Outcome(cfg, upd, cur_message, doc,
                 Some(StatusReply(FALSE, Some(<<"Invalid message type",
                                                message.type>>))),
                 FALSE)

(***************************************************************************)
(* load_config: replay the saved entries, config first, through            *)
(* process_message.  A missing file is caught and leaves the defaults; a   *)
(* KeyError of process_message is not among the exceptions load_config     *)
(* catches and ends the replay there (raised).                             *)
(***************************************************************************)
RECURSIVE Replay(_, _, _)
Replay(entries, i, state) ==
  IF i > Len(entries) \/ state.raised
    THEN state
    ELSE Replay(entries, i + 1,
                process_message(entries[i], state.config, state.update_data,
                                state.current_message, state.saved,
                                [d \in Displays |-> None]))

load_config(doc) ==
  LET fresh == Outcome([d \in Displays |-> DefaultConfig],
                       [d \in Displays |-> DefaultUpdateData],
                       [d \in Displays |-> NullMessage],
                       doc, None, FALSE)
  IN IF IsNone(doc)
       THEN fresh
       ELSE Replay(Get(doc).config \o Get(doc).messages, 1, fresh)

(***************************************************************************)
(* control_loop: what one pass of the body of                              *)
(*   for display, message in self.current_message.items()                  *)
(* does for a registered display.                                          *)
(***************************************************************************)

\* Duration that ignores the message's own duration
DurationIntervalOnly(actual_message, message) == message.interval

\* actual_message.get('duration', message['interval']) or message['interval']
Duration(actual_message, message) ==
  IF actual_message.duration # 0
    THEN actual_message.duration
    ELSE message.interval

\* "Register dynamic submessages": each index of the active content is set
\* or popped; an index beyond the active content is not touched.
Register(dynamic_submessages, submessages, now_time) ==
  LET indices == 0..(Len(submessages) - 1)
      dynamic == {i \in indices : Truthy(GetRefreshInterval(submessages[i + 1]))}
  IN [i \in (DOMAIN dynamic_submessages \ indices) \cup dynamic |->
        IF i \in dynamic
          THEN [refresh_interval |-> GetRefreshInterval(submessages[i + 1]),
                last_refresh |-> now_time]
          ELSE dynamic_submessages[i]]

\* Due with ">" for ">="
DueStrict(entry, now_time, now_minute, last_check_minute) ==
  IF entry.refresh_interval.kind = "minute"
    THEN now_minute # last_check_minute
    ELSE now_time - entry.last_refresh > entry.refresh_interval.n

\* Due that measures a "minute" entry against its own last refresh
DueRollingMinute(entry, now_time, now_minute, last_check_minute) ==
  IF entry.refresh_interval.kind = "minute"
    THEN now_time - entry.last_refresh >= SecondsPerMinute
    ELSE now_time - entry.last_refresh >= entry.refresh_interval.n

\* one entry of dynamic_submessages is due
Due(entry, now_time, now_minute, last_check_minute) ==
  IF entry.refresh_interval.kind = "minute"
    THEN now_minute # last_check_minute
    ELSE now_time - entry.last_refresh >= entry.refresh_interval.n

\* "Check if any dynamic messages need to be updated"
DynamicMessageChanged(dynamic_submessages, now_time, now_minute, last_check_minute) ==
  \E i \in DOMAIN dynamic_submessages :
    Due(dynamic_submessages[i], now_time, now_minute, last_check_minute)

\* the renderer provides the drawing functions "text" and "explode"
HasFunc(func) == func \in {"text", "explode"}
\* calling "explode" raises
FuncRaises(func) == func = "explode"

\* the stamp after a graphics submessage was drawn
Stamp(dynamic_submessages, index, now_time) ==
  IF index \in DOMAIN dynamic_submessages
    THEN [dynamic_submessages EXCEPT ![index].last_refresh = now_time]
    ELSE dynamic_submessages

\* the loop over enumerate(actual_message['submessages']) of a refresh, from
\* index on: the entries of dynamic_submessages it stamps, the indices it
\* draws, the frame it builds, and whether getattr raised
RECURSIVE Render(_, _, _, _, _, _)
Render(submessages, index, dynamic_submessages, drawn, frame, now_time) ==
  IF index >= Len(submessages)
    THEN [dynamic_submessages |-> dynamic_submessages, drawn |-> drawn,
          frame |-> frame, raised |-> FALSE]
    ELSE
      LET submessage == submessages[index + 1] IN
      IF submessage.type = "bitmap"
        THEN Render(submessages, index + 1, dynamic_submessages,
                    Append(drawn, index), Append(frame, "bitmap"), now_time)
      ELSE IF submessage.type = "graphics"
        THEN IF ~HasFunc(submessage.func)
               THEN [dynamic_submessages |-> dynamic_submessages,
                     drawn |-> drawn, frame |-> frame, raised |-> TRUE]
               ELSE Render(submessages, index + 1,
                           Stamp(dynamic_submessages, index, now_time),
                           Append(drawn, index),
                           IF FuncRaises(submessage.func)
                             THEN frame
                             ELSE Append(frame, submessage.func),
                           now_time)
      ELSE Render(submessages, index + 1, dynamic_submessages, drawn, frame,
                  now_time)

\* what a pass told the hardware: the setter calls <<key, value, ok>>, the
\* decisions of the pass, the submessages drawn, the frame handed to commit
Report(set_calls, rotated, due, refreshed, drawn, committed, raised) ==
  [set_calls |-> set_calls, rotated |-> rotated, due |-> due,
   refreshed |-> refreshed, drawn |-> drawn, committed |-> committed,
   raised |-> raised]

NoReport == Report(<<>>, FALSE, FALSE, FALSE, <<>>, None, FALSE)

\* SetCalls that stops after the first pending key
SetCallsFirstOnly(config_d, config_keys_changed, set_failed) ==
  [i \in 1..(IF Len(config_keys_changed) > 1 THEN 1 ELSE Len(config_keys_changed)) |->
     <<config_keys_changed[i], config_d[config_keys_changed[i]],
       i \notin set_failed>>]

\* "Process configuration changes": set_config for each pending key;
\* set_failed holds the positions whose setter raised
SetCalls(config_d, config_keys_changed, set_failed) ==
  [i \in 1..Len(config_keys_changed) |->
     <<config_keys_changed[i], config_d[config_keys_changed[i]],
       i \notin set_failed>>]

Pass(upd_d, cur_bitmap_d, report) ==
  [update_data |-> upd_d, current_bitmap |-> cur_bitmap_d, report |-> report]

\* ResetSequence that restarts the clock of a Sequence but keeps the position
ResetSequenceKeepsPosition(upd_d, message, now_time) ==
  IF ~upd_d.message_changed THEN upd_d
  ELSE IF message.type = "sequence"
    THEN [upd_d EXCEPT !.sequence_cur_pos =
                          IF IsNone(@) THEN Some(0) ELSE @,
                       !.sequence_last_switched = Some(now_time)]
  ELSE IF message.type = "single"
    THEN [upd_d EXCEPT !.sequence_cur_pos = Some(0),
                       !.sequence_last_switched = None]
  ELSE upd_d

\* "A message has been changed"
ResetSequence(upd_d, message, now_time) ==
  IF ~upd_d.message_changed THEN upd_d
  ELSE IF message.type = "sequence"
    THEN [upd_d EXCEPT !.sequence_cur_pos = Some(0),
                       !.sequence_last_switched = Some(now_time)]
  ELSE IF message.type = "single"
    THEN [upd_d EXCEPT !.sequence_cur_pos = Some(0),
                       !.sequence_last_switched = None]
  ELSE upd_d

\* "If the submessage has expired, switch to the next one"
NextPos(pos, message) ==
  IF pos = Len(message.messages) - 1 THEN 0 ELSE pos + 1

\* everything after the configuration changes, for a message that is not
\* None (a Single or a Sequence)
ControlMessage(message, upd0, cur_bitmap_d, set_calls, now_time, now_minute, last_check_minute, commit_failed) ==
  LET upd1 == ResetSequence(upd0, message, now_time)
      is_sequence == message.type = "sequence"
      \* messages[None], messages[out of range], now_time - None
      bad_sequence ==
        /\ is_sequence
        /\ \/ IsNone(upd1.sequence_cur_pos)
           \/ IsNone(upd1.sequence_last_switched)
           \/ Get(upd1.sequence_cur_pos) >= Len(message.messages)
      cleared == [upd1 EXCEPT !.message_changed = FALSE]
  IN
  IF bad_sequence
    THEN Pass(cleared, cur_bitmap_d,
              Report(set_calls, FALSE, FALSE, FALSE, <<>>, None, TRUE))
    ELSE
      LET pos == Get(upd1.sequence_cur_pos)
          sequence_needs_switching ==
            /\ is_sequence
            /\ now_time - Get(upd1.sequence_last_switched)
                 >= Duration(message.messages[pos + 1], message)
          upd2 ==
            IF sequence_needs_switching
              THEN [upd1 EXCEPT
                      !.sequence_cur_pos = Some(NextPos(pos, message)),
                      !.sequence_last_switched = Some(now_time)]
              ELSE upd1
          actual_message ==
            IF is_sequence
              THEN message.messages[Get(upd2.sequence_cur_pos) + 1]
              ELSE message
          upd3 ==
            IF sequence_needs_switching \/ upd2.message_changed
              THEN [upd2 EXCEPT !.dynamic_submessages =
                      Register(@, actual_message.submessages, now_time)]
              ELSE upd2
          dynamic_message_changed ==
            DynamicMessageChanged(upd3.dynamic_submessages, now_time,
                                  now_minute, last_check_minute)
          needs_refresh ==
            \/ upd3.message_changed
            \/ dynamic_message_changed
            \/ sequence_needs_switching
          r == Render(actual_message.submessages, 0, upd3.dynamic_submessages,
                      <<>>, <<>>, now_time)
          upd4 == [upd3 EXCEPT !.dynamic_submessages = r.dynamic_submessages,
                               !.message_changed = FALSE]
      IN
      IF ~needs_refresh
        THEN Pass([upd3 EXCEPT !.message_changed = FALSE], cur_bitmap_d,
                  Report(set_calls, sequence_needs_switching,
                         dynamic_message_changed, FALSE, <<>>, None, FALSE))
      ELSE IF r.raised
        THEN Pass(upd4, cur_bitmap_d,
                  Report(set_calls, sequence_needs_switching,
                         dynamic_message_changed, TRUE, r.drawn, None, TRUE))
      ELSE Pass(upd4, Some(r.frame),
                Report(set_calls, sequence_needs_switching,
                       dynamic_message_changed, TRUE, r.drawn,
                       Some([frame |-> r.frame, ok |-> ~commit_failed]),
                       FALSE))

\* ControlDisplay whose "continue" for a display without content leaves
\* message_changed as it is
ControlDisplayContinueSkipsClear(message, config_d, upd_d, cur_bitmap_d, now_time, now_minute, last_check_minute, set_failed, commit_failed) ==
  LET set_calls == SetCalls(config_d, upd_d.config_keys_changed, set_failed)
      upd0 == [upd_d EXCEPT !.config_keys_changed = <<>>]
  IN IF message = NullMessage
       THEN Pass(upd0, cur_bitmap_d,
                 Report(set_calls, FALSE, FALSE, FALSE, <<>>, None, FALSE))
       ELSE ControlMessage(message, upd0, cur_bitmap_d, set_calls, now_time,
                           now_minute, last_check_minute, commit_failed)

\* the whole pass for one display
ControlDisplay(message, config_d, upd_d, cur_bitmap_d, now_time, now_minute, last_check_minute, set_failed, commit_failed) ==
  LET set_calls == SetCalls(config_d, upd_d.config_keys_changed, set_failed)
      upd0 == [upd_d EXCEPT !.config_keys_changed = <<>>]
  IN IF message = NullMessage
       THEN Pass([upd0 EXCEPT !.message_changed = FALSE], cur_bitmap_d,
                 Report(set_calls, FALSE, FALSE, FALSE, <<>>, None, FALSE))
       ELSE ControlMessage(message, upd0, cur_bitmap_d, set_calls, now_time,
                           now_minute, last_check_minute, commit_failed)

(***************************************************************************)
(* The requests and connections of a run.                                  *)
(***************************************************************************)
Option(key, value) == <<key, value>>

ControlBodies ==
  { <<Option("backlight", TRUE)>>,
    <<Option("backlight", FALSE)>>,
    <<Option("inverting", TRUE), Option("active", FALSE)>>,
    <<Option("inverting", TRUE), Option("bogus", TRUE)>>,
    <<Option("bogus", TRUE), Option("inverting", TRUE)>>,
    <<>> }

ControlRequests ==
  {build_control_message(d, b) : d \in Displays \cup {Ghost}, b \in ControlBodies}

QueryRequests ==
  { build_config_query_message(None, None),
    build_config_query_message(Some({"front"}), Some({"backlight", "inverting"})),
    build_config_query_message(Some({Ghost}), None),
    build_message_query_message(None),
    build_message_query_message(Some({})),
    build_bitmap_query_message(Some({"side"})),
    build_hwconfig_query_message,
    [type |-> "reset"] }

DispatchMessages == {StaticMessage, RotatingMessage, NullMessage}

DispatchRequests ==
  ControlRequests \cup QueryRequests \cup
  {build_data_message(d, m) : d \in Displays \cup {Ghost}, m \in DispatchMessages}

\* the requests that appear inside a list of two
PairRequests ==
  { build_control_message("front", <<Option("backlight", TRUE)>>),
    build_control_message("front", <<Option("inverting", TRUE), Option("bogus", TRUE)>>),
    build_control_message("side", <<Option("inverting", TRUE), Option("active", FALSE)>>),
    build_data_message("front", StaticMessage),
    build_data_message("side", RotatingMessage),
    build_config_query_message(None, None),
    build_message_query_message(None) }

\* what receive_message returns: one envelope, or a list of envelopes
Envelope(message) == [is_list |-> FALSE, value |-> Some(message)]
EnvelopeList(messages) == [is_list |-> TRUE, value |-> messages]

DispatchPayloads ==
  {Envelope(m) : m \in DispatchRequests} \cup
  {EnvelopeList(<<>>)} \cup
  {EnvelopeList(<<a, b>>) : a \in PairRequests, b \in PairRequests}

SchedulerMessages ==
  {StaticMessage, ClockMessage, RotatingMessage, LongSequence, BrokenMessage,
   NullMessage}

SchedulerPayloads ==
  {Envelope(build_data_message(d, m)) :
     d \in Displays \cup {Ghost}, m \in SchedulerMessages}

(***************************************************************************)
(* Init: the state __init__ and a load_config that finds no file leave,    *)
(* with both threads about to start.                                       *)
(***************************************************************************)
Init ==
  /\ config = [d \in Displays |-> DefaultConfig]
  /\ update_data = [d \in Displays |-> DefaultUpdateData]
  /\ current_message = [d \in Displays |-> NullMessage]
  /\ current_bitmap = [d \in Displays |-> None]
  /\ saved = None
  /\ listener = [pc |-> "accept", messages |-> <<>>, index |-> 0,
                 reply |-> None, conns |-> 0, peer |-> None, missing |-> 0]
  /\ sent = None
  /\ loop = [pc |-> "sleep", index |-> 0, iter_len |-> 0,
             now_time |-> StartTime, last_check_minute |-> Minute(StartTime),
             phase |-> "bind", message |-> None, key_pos |-> 0,
             set_calls |-> <<>>]
  /\ hardware = [d \in Displays |-> NoReport]
  /\ faults = 0

(***************************************************************************)
(* network_listen.                                                         *)
(***************************************************************************)

\* accept from a peer the filter lets through, and receive_message:
\* "if type(messages) not in (list, tuple)"
Receive(payload) ==
  /\ listener.pc = "accept"
  /\ listener.conns < MaxConns
  /\ ~Filtered(AllowedPeer)
  /\ listener' = [pc |-> "process",
                  peer |-> Some(AllowedPeer), missing |-> 0,
                  messages |-> IF payload.is_list THEN payload.value
                                                  ELSE <<Get(payload.value)>>,
                  index |-> 0,
                  reply |-> Some(StatusReply(TRUE, None)),
                  conns |-> listener.conns + 1]
  /\ sent' = None
  /\ UNCHANGED <<config, update_data, current_message, current_bitmap, saved,
                 loop, hardware, faults>>

\* receive_message, after the length header was read: the loop
\* "while l < length" adds what recv returns.  The payload is complete when
\* nothing is missing; while bytes are missing and the peer keeps its end
\* open, recv waits for them; once the peer has closed, recv returns b''
\* at once, l stays where it is and the loop does not end.
receive_message(missing, peer_closed) ==
  IF missing = 0 THEN "process"
  ELSE IF peer_closed THEN "receive"
  ELSE "wait"

\* accept from a peer the filter lets through that sends the length header
\* and fewer payload bytes than it declares, then closes the connection
ReceiveTruncated ==
  /\ listener.pc = "accept"
  /\ listener.conns < MaxConns
  /\ ~Filtered(AllowedPeer)
  /\ \E missing \in 1..MaxMissing :
       listener' = [pc |-> receive_message(missing, TRUE),
                    peer |-> Some(AllowedPeer), missing |-> missing,
                    messages |-> <<>>, index |-> 0, reply |-> None,
                    conns |-> listener.conns + 1]
  /\ sent' = None
  /\ UNCHANGED <<config, update_data, current_message, current_bitmap, saved,
                 loop, hardware, faults>>

\* accept from a peer the filter turns away, and discard_message: the
\* socket is made non-blocking and read until recv raises.  While the peer
\* keeps its end open, recv raises once the bytes that arrived are read and
\* the acceptor continues; once the peer has closed its end, recv returns
\* b'' every time and never raises, and the loop does not end.
Discard(ip) ==
  /\ listener.pc = "accept"
  /\ listener.conns < MaxConns
  /\ Filtered(ip)
  /\ \E peer_closed \in BOOLEAN :
       listener' = [pc |-> IF peer_closed THEN "discard" ELSE "accept",
                    peer |-> Some(ip), missing |-> 0,
                    messages |-> <<>>, index |-> 0,
                    reply |-> None, conns |-> listener.conns + 1]
  /\ sent' = None
  /\ UNCHANGED <<config, update_data, current_message, current_bitmap, saved,
                 loop, hardware, faults>>

\* "if reply: send_message(conn, reply)"
Send(reply) == IF ReplyTruthy(reply) THEN Some(reply) ELSE None

\* a control request may not grow config_keys_changed past the bound
WithinPending(message) ==
  message.type = "control" /\ message.display \in Displays
    => Len(update_data[message.display].config_keys_changed)
         + Len(message.message) <= MaxPending

\* one turn of "for message in messages", or the end of the loop
Process ==
  /\ listener.pc = "process"
  /\ IF listener.index >= Len(listener.messages)
       THEN /\ sent' = Send(Get(listener.reply))
            /\ listener' = [listener EXCEPT !.pc = "accept"]
            /\ UNCHANGED <<config, update_data, current_message, saved>>
       ELSE
         LET message == listener.messages[listener.index + 1]
             out == process_message(message, config, update_data,
                                    current_message, saved, current_bitmap)
         IN /\ WithinPending(message)
            /\ config' = out.config
            /\ update_data' = out.update_data
            /\ current_message' = out.current_message
            /\ saved' = out.saved
            /\ IF out.raised
                 THEN \* "except: traceback.print_exc()": no reply
                      /\ listener' = [listener EXCEPT !.pc = "accept",
                                                      !.index = @ + 1,
                                                      !.reply = None]
                      /\ sent' = None
                 ELSE IF ~ReplyGetSuccess(Get(out.reply))
                           \/ listener.index + 1 = Len(listener.messages)
                   THEN \* break, or the list is exhausted
                        /\ sent' = Send(Get(out.reply))
                        /\ listener' = [listener EXCEPT !.pc = "accept",
                                                        !.index = @ + 1,
                                                        !.reply = out.reply]
                   ELSE /\ listener' = [listener EXCEPT !.index = @ + 1,
                                                        !.reply = out.reply]
                        /\ sent' = None
  /\ UNCHANGED <<current_bitmap, loop, hardware, faults>>

(***************************************************************************)
(* control_loop.  A tick samples the clock, then passes over the keys of   *)
(* self.current_message in order; after the last one it records the        *)
(* minute and sleeps.                                                      *)
(***************************************************************************)
TickBegin(max_elapsed) ==
  /\ loop.pc = "sleep"
  /\ \E step \in 1..MaxStep :
       /\ loop.now_time + step <= StartTime + max_elapsed
       /\ loop' = [loop EXCEPT !.pc = "tick", !.index = 0,
                               !.iter_len = Len(MessageKeys(current_message)),
                               !.now_time = @ + step]
  /\ UNCHANGED <<config, update_data, current_message, current_bitmap, saved,
                 listener, sent, hardware, faults>>

\* after the pass at position index: the next key, or the end of the tick
\* ("last_check_dt = now_dt" and the sleep)
Advance ==
  IF loop.index + 1 >= loop.iter_len
    THEN [loop EXCEPT !.pc = "sleep", !.index = @ + 1,
                      !.last_check_minute = Minute(loop.now_time)]
    ELSE [loop EXCEPT !.index = @ + 1]

\* the pass for one registered display
TickDisplay ==
  /\ loop.pc = "tick"
  /\ Len(MessageKeys(current_message)) = loop.iter_len
  /\ MessageKeys(current_message)[loop.index + 1] \in Displays
  /\ LET display == MessageKeys(current_message)[loop.index + 1]
         pending == update_data[display].config_keys_changed
     IN \E set_failed \in SUBSET (1..Len(pending)), commit_failed \in BOOLEAN :
          LET p == ControlDisplay(current_message[display], config[display],
                                  update_data[display], current_bitmap[display],
                                  loop.now_time, Minute(loop.now_time),
                                  loop.last_check_minute, set_failed,
                                  commit_failed)
              failed == Cardinality(set_failed)
                        + (IF commit_failed THEN 1 ELSE 0)
          IN /\ commit_failed => ~IsNone(p.report.committed)
             /\ faults + failed <= MaxFaults
             /\ faults' = faults + failed
             /\ update_data' = [update_data EXCEPT ![display] = p.update_data]
             /\ current_bitmap' = [current_bitmap EXCEPT ![display] = p.current_bitmap]
             /\ hardware' = [hardware EXCEPT ![display] = p.report]
  /\ loop' = Advance
  /\ UNCHANGED <<config, current_message, saved, listener, sent>>

\* the pass that does not complete: the key is not one of self.update_data
\* (KeyError), or the dict grew since the tick began (RuntimeError).  The
\* outer "except" takes it: no minute record, no sleep, the next tick starts.
TickAbort ==
  /\ loop.pc = "tick"
  /\ loop.phase = "bind"
  /\ \/ Len(MessageKeys(current_message)) # loop.iter_len
     \/ MessageKeys(current_message)[loop.index + 1] \notin Displays
  /\ loop' = [loop EXCEPT !.pc = "sleep"]
  /\ UNCHANGED <<config, update_data, current_message, current_bitmap, saved,
                 listener, sent, hardware, faults>>

(***************************************************************************)
(* control_loop, one pass taken statement by statement, so that a request  *)
(* the acceptor thread dispatches can fall between two of them.            *)
(*   bind    "for display, message in ...items()": message is bound here   *)
(*   config  the loop over config_keys_changed, one set_config per turn;   *)
(*           the list is the live one, an append during the loop is seen   *)
(*   clear   "update_data['config_keys_changed'] = []"                     *)
(*   body    from "if message is None" to the commit, on the bound message *)
(*   finish  "update_data['message_changed'] = False"                      *)
(***************************************************************************)
PassDisplay == MessageKeys(current_message)[loop.index + 1]

AtPhase(phase) ==
  /\ loop.pc = "tick"
  /\ loop.phase = phase
  /\ loop.index < Len(MessageKeys(current_message))
  /\ PassDisplay \in Displays

PassBind ==
  /\ AtPhase("bind")
  /\ Len(MessageKeys(current_message)) = loop.iter_len
  /\ loop' = [loop EXCEPT !.phase = "config",
                          !.message = Some(current_message[PassDisplay]),
                          !.key_pos = 0, !.set_calls = <<>>]
  /\ UNCHANGED <<config, update_data, current_message, current_bitmap, saved,
                 listener, sent, hardware, faults>>

\* one turn of "for key in update_data['config_keys_changed']"
PassSetter ==
  /\ AtPhase("config")
  /\ loop.key_pos < Len(update_data[PassDisplay].config_keys_changed)
  /\ LET key == update_data[PassDisplay].config_keys_changed[loop.key_pos + 1]
     IN \E ok \in BOOLEAN :
          /\ faults + (IF ok THEN 0 ELSE 1) <= MaxFaults
          /\ faults' = faults + (IF ok THEN 0 ELSE 1)
          /\ loop' = [loop EXCEPT
                        !.key_pos = @ + 1,
                        !.set_calls = Append(@, <<key, config[PassDisplay][key], ok>>)]
  /\ UNCHANGED <<config, update_data, current_message, current_bitmap, saved,
                 listener, sent, hardware>>

\* the loop over config_keys_changed finds no further key and ends
PassSettersDone ==
  /\ AtPhase("config")
  /\ loop.key_pos >= Len(update_data[PassDisplay].config_keys_changed)
  /\ loop' = [loop EXCEPT !.phase = "clear"]
  /\ UNCHANGED <<config, update_data, current_message, current_bitmap, saved,
                 listener, sent, hardware, faults>>

PassClear ==
  /\ AtPhase("clear")
  /\ update_data' = [update_data EXCEPT ![PassDisplay].config_keys_changed = <<>>]
  /\ loop' = [loop EXCEPT !.phase = "body"]
  /\ UNCHANGED <<config, current_message, current_bitmap, saved, listener,
                 sent, hardware, faults>>

\* the statements between the clearing of config_keys_changed and the
\* clearing of message_changed; message_changed itself is only read
PassBody ==
  /\ AtPhase("body")
  /\ LET display == PassDisplay
         message == Get(loop.message)
     IN \E commit_failed \in BOOLEAN :
          LET p == IF message = NullMessage
                     THEN Pass(update_data[display], current_bitmap[display],
                               Report(loop.set_calls, FALSE, FALSE, FALSE, <<>>,
                                      None, FALSE))
                     ELSE ControlMessage(message, update_data[display],
                                         current_bitmap[display], loop.set_calls,
                                         loop.now_time, Minute(loop.now_time),
                                         loop.last_check_minute, commit_failed)
              failed == IF commit_failed THEN 1 ELSE 0
          IN /\ commit_failed => ~IsNone(p.report.committed)
             /\ faults + failed <= MaxFaults
             /\ faults' = faults + failed
             /\ update_data' =
                  [update_data EXCEPT ![display] =
                     [p.update_data EXCEPT !.message_changed =
                                              update_data[display].message_changed]]
             /\ current_bitmap' = [current_bitmap EXCEPT ![display] = p.current_bitmap]
             /\ hardware' = [hardware EXCEPT ![display] = p.report]
  /\ loop' = [loop EXCEPT !.phase = "finish"]
  /\ UNCHANGED <<config, current_message, saved, listener, sent>>

\* "finally: update_data['message_changed'] = False", then the next key or
\* the end of the tick
PassFinish ==
  /\ AtPhase("finish")
  /\ update_data' = [update_data EXCEPT ![PassDisplay].message_changed = FALSE]
  /\ loop' = [Advance EXCEPT !.phase = "bind", !.message = None,
                             !.key_pos = 0, !.set_calls = <<>>]
  /\ UNCHANGED <<config, current_message, current_bitmap, saved, listener,
                 sent, hardware, faults>>

InterleavedPayloads ==
  {Envelope(build_data_message(d, m)) :
     d \in Displays, m \in {StaticMessage, ClockMessage}} \cup
  {Envelope(build_control_message(d, b)) :
     d \in Displays,
     b \in {<<Option("backlight", TRUE)>>, <<Option("inverting", TRUE)>>}} \cup
  {Envelope(build_data_message(Ghost, StaticMessage))}

NextInterleaved ==
  \/ \E payload \in InterleavedPayloads : Receive(payload)
  \/ ReceiveTruncated
  \/ Discard(OtherPeer)
  \/ Process
  \/ TickBegin(MaxElapsedInterleaved)
  \/ PassBind
  \/ PassSetter
  \/ PassSettersDone
  \/ PassClear
  \/ PassBody
  \/ PassFinish
  \/ TickAbort

SpecInterleaved == Init /\ [][NextInterleaved]_vars

Next ==
  \/ \E payload \in DispatchPayloads : Receive(payload)
  \/ ReceiveTruncated
  \/ Discard(OtherPeer)
  \/ Process
  \/ TickBegin(MaxElapsedDispatch)
  \/ TickDisplay
  \/ TickAbort

Spec == Init /\ [][Next]_vars

NextScheduler ==
  \/ \E payload \in SchedulerPayloads : Receive(payload)
  \/ ReceiveTruncated
  \/ Discard(OtherPeer)
  \/ Process
  \/ TickBegin(MaxElapsed)
  \/ TickDisplay
  \/ TickAbort

SpecScheduler == Init /\ [][NextScheduler]_vars

(***************************************************************************)
(* Vocabulary of the properties.                                           *)
(***************************************************************************)

\* the request the acceptor is about to hand to process_message
Processing ==
  listener.pc = "process" /\ listener.index < Len(listener.messages)
Request == listener.messages[listener.index + 1]
\* the step that dispatches Request
Processed == Processing /\ listener'.index = listener.index + 1

\* the step that is the scheduler's pass for display d
TickStep(d) ==
  /\ loop.pc = "tick"
  /\ loop'.index = loop.index + 1
  /\ MessageKeys(current_message)[loop.index + 1] = d

HasUnknownKey(message) ==
  \E i \in 1..Len(message.message) : message.message[i][1] \notin ConfigKeys

ReportsFailure(reply) == reply.kind = "status" /\ ~reply.success
ReportsSuccess(reply) == reply.kind = "status" /\ reply.success

\* the connection has been served and process_message did not raise
Closed ==
  listener.pc = "accept" /\ listener.conns > 0 /\ ~IsNone(listener.reply)

(***************************************************************************)
(* C1: a control request that lists a key the display's config does not    *)
(* have answers success: false and leaves the display's config and its     *)
(* config_keys_changed as they were, wherever the unknown key stands.      *)
(***************************************************************************)
C1_UnknownKeyAppliesNothing ==
  [][ (/\ Processed
       /\ Request.type = "control"
       /\ Request.display \in Displays
       /\ HasUnknownKey(Request))
      => /\ ReportsFailure(Get(listener'.reply))
         /\ config'[Request.display] = config[Request.display]
         /\ update_data'[Request.display].config_keys_changed
              = update_data[Request.display].config_keys_changed ]_vars

(***************************************************************************)
(* C2: a list of requests is processed in order up to and including the    *)
(* first request whose reply reports success: false and no further: a      *)
(* request of the list is left unprocessed only behind a reply that        *)
(* reports success: false, and that failing reply is the one sent back.    *)
(***************************************************************************)
C2_BatchStopsOnlyAtFailure ==
  Closed =>
    /\ listener.index < Len(listener.messages)
         => ReportsFailure(Get(listener.reply))
    /\ ReportsFailure(Get(listener.reply)) => sent = listener.reply

(***************************************************************************)
(* Vocabulary of the scheduler's properties.                               *)
(***************************************************************************)

\* the content the scheduler shows for display d: the Single itself, or the
\* message of the Sequence at sequence_cur_pos
Active(d) ==
  IF current_message[d].type = "sequence"
    THEN current_message[d].messages[Get(update_data[d].sequence_cur_pos) + 1]
    ELSE current_message[d]

\* a Single none of whose submessages has a truthy refresh_interval
IsStaticSingle(message) ==
  /\ message.type = "single"
  /\ \A i \in 1..Len(message.submessages) :
       ~Truthy(GetRefreshInterval(message.submessages[i]))

\* the pass handed a frame to commit
Committed(report) == ~IsNone(report.committed)

\* the pass for d is one without a new Message and without a rotation
QuietPass(d) ==
  /\ TickStep(d)
  /\ current_message[d].type \in {"single", "sequence"}
  /\ ~update_data[d].message_changed
  /\ ~hardware'[d].rotated

\* the indices of the active content's Graphics submessages
GraphicsIndices(d) ==
  {i \in 0..(Len(Active(d).submessages) - 1) :
     Active(d).submessages[i + 1].type = "graphics"}

\* entry i of d's dynamic_submessages has a numeric interval that has run out
NumericDue(d, i) ==
  /\ update_data[d].dynamic_submessages[i].refresh_interval.kind = "seconds"
  /\ loop.now_time - update_data[d].dynamic_submessages[i].last_refresh
       >= update_data[d].dynamic_submessages[i].refresh_interval.n

\* the minute of this tick is not the one last_check_dt holds
MinuteCrossed == Minute(loop.now_time) # loop.last_check_minute

InSeq(x, seq) == \E k \in 1..Len(seq) : seq[k] = x

(***************************************************************************)
(* C3: once a data request has assigned a Single without dynamic           *)
(* submessages, the scheduler commits it on the pass that sees             *)
(* message_changed and on no later pass, whatever the display held before. *)
(***************************************************************************)
C3_StaticSingleCommittedOnce ==
  [][ \A d \in Displays :
        TickStep(d) /\ IsStaticSingle(current_message[d])
          => (Committed(hardware'[d]) <=> update_data[d].message_changed) ]_vars

(***************************************************************************)
(* C4: for a Sequence, a pass leaves position i only when                  *)
(* now - sequence_last_switched >= (messages[i].duration or interval); it  *)
(* then moves to i + 1, or to 0 from the last index, and sets              *)
(* sequence_last_switched to now.  sequence_last_switched is otherwise set *)
(* only by the pass that processes the assignment, to that pass's now.     *)
(***************************************************************************)
DurationOrInterval(message, i) ==
  IF message.messages[i + 1].duration # 0
    THEN message.messages[i + 1].duration
    ELSE message.interval

C4_SequenceRotation ==
  [][ \A d \in Displays :
        TickStep(d) /\ current_message[d].type = "sequence"
          => LET message == current_message[d]
                 now == loop.now_time
                 pos_after == Get(update_data'[d].sequence_cur_pos)
                 last_after == Get(update_data'[d].sequence_last_switched)
             IN IF update_data[d].message_changed
                  THEN \* the pass that processes the assignment
                       /\ last_after = now
                       /\ pos_after = 0
                  ELSE LET pos == Get(update_data[d].sequence_cur_pos)
                           last == Get(update_data[d].sequence_last_switched)
                       IN /\ pos_after # pos
                               => /\ now - last >= DurationOrInterval(message, pos)
                                  /\ pos_after = (pos + 1) % Len(message.messages)
                                  /\ last_after = now
                          /\ pos_after = pos
                               => /\ now - last < DurationOrInterval(message, pos)
                                  /\ last_after = last ]_vars

\* a Sequence has gone round: the last pass wrapped it from the last index to 0
C4_Wrapped ==
  \E d \in Displays :
    /\ current_message[d] = RotatingMessage
    /\ hardware[d].rotated
    /\ update_data[d].sequence_cur_pos = Some(0)
    /\ update_data[d].sequence_last_switched = Some(loop.now_time)

(***************************************************************************)
(* Vocabulary of the refresh properties, for a quiet pass of display d.    *)
(***************************************************************************)

\* the tracked Graphics submessages of the active content whose interval is
\* of the given kind
Tracked(d, kind) ==
  {i \in GraphicsIndices(d) \cap DOMAIN update_data[d].dynamic_submessages :
     update_data[d].dynamic_submessages[i].refresh_interval.kind = kind}

\* the pass drew submessage i
Drew(d, i) == InSeq(i, hardware'[d].drawn)

\* some entry of dynamic_submessages is due in this pass
SomeEntryDue(d) ==
  \E j \in DOMAIN update_data[d].dynamic_submessages :
    \/ NumericDue(d, j)
    \/ /\ update_data[d].dynamic_submessages[j].refresh_interval.kind = "minute"
       /\ MinuteCrossed

\* the renderer provides the drawing function of every Graphics submessage
\* of the active content up to index i
DrawableUpTo(d, i) ==
  \A k \in GraphicsIndices(d) : k <= i => HasFunc(Active(d).submessages[k + 1].func)

C7_QueryReflectsControl ==
  [][ (/\ Processed
       /\ Request.type = "query-config"
       /\ listener.index >= 1
       /\ listener.messages[listener.index].type = "control"
       /\ listener.messages[listener.index].display \in Displays
       /\ ReportsSuccess(Get(listener.reply)))
      => LET control == listener.messages[listener.index]
             d == control.display
         IN d \in RequestedDisplays(Request) =>
              /\ ~IsNone(listener'.reply)
              /\ \A i \in 1..Len(control.message) :
                   IsNone(Request.keys) \/ control.message[i][1] \in Get(Request.keys)
                     => Get(listener'.reply).result[d][control.message[i][1]]
                          = control.message[i][2] ]_vars

\* a control request that changed two options, then a query-config, have
\* been served on one connection and the query's answer is on the wire
C7_Queried ==
  /\ listener.pc = "accept" /\ listener.index = 2
  /\ listener.messages =
       << build_control_message("side", <<Option("inverting", TRUE),
                                          Option("active", FALSE)>>),
          build_config_query_message(None, None) >>
  /\ ~IsNone(sent)
  /\ Get(sent).kind = "result"
  /\ Get(sent).result["side"]["inverting"] = TRUE
  /\ Get(sent).result["side"]["active"] = FALSE

(***************************************************************************)
(* C8: a data request for a registered display returns success: true,      *)
(* makes the submitted Message the display's current Message (query-       *)
(* message then returns exactly it), sets the display's message_changed,   *)
(* and changes nothing else: no config, no other display's message or      *)
(* schedule state.                                                         *)
(***************************************************************************)
C8_DataReplacesMessage ==
  [][ (/\ Processed
       /\ Request.type = "data"
       /\ Request.display \in Displays)
      => LET d == Request.display
             query == ProcessQueryMessage(
                        build_message_query_message(Some({d})), config',
                        update_data', current_message', saved')
         IN /\ listener'.reply = Some(StatusReply(TRUE, None))
            /\ current_message'[d] = Request.message
            /\ ~query.raised
            /\ Get(query.reply).result[d] = Request.message
            /\ update_data'[d].message_changed
            /\ update_data'[d]
                 = [update_data[d] EXCEPT !.message_changed = TRUE]
            /\ config' = config
            /\ DOMAIN current_message' = DOMAIN current_message
            /\ \A e \in Displays \ {d} :
                 /\ current_message'[e] = current_message[e]
                 /\ update_data'[e] = update_data[e] ]_vars

\* a data request replaced a Message the display already held, and the
\* query-message behind it on the same connection answered the new one
C8_Replaced ==
  /\ listener.pc = "accept" /\ listener.index = 2
  /\ listener.messages =
       << build_data_message("side", RotatingMessage),
          build_message_query_message(None) >>
  /\ ~IsNone(sent)
  /\ Get(sent).kind = "result"
  /\ Get(sent).result["side"] = RotatingMessage
  /\ Get(sent).result["front"] = StaticMessage
  /\ update_data["side"].message_changed
  /\ ~update_data["front"].message_changed

DocumentHolds(doc, cfg, cur_message) ==
  \A d \in Displays :
    /\ Cardinality({i \in 1..Len(doc.config) : doc.config[i].display = d}) = 1
    /\ Cardinality({i \in 1..Len(doc.messages) : doc.messages[i].display = d}) = 1
    /\ \A i \in 1..Len(doc.config) :
         doc.config[i].display = d =>
           /\ doc.config[i].type = "control"
           /\ {doc.config[i].message[j] : j \in 1..Len(doc.config[i].message)}
                = {<<k, cfg[d][k]>> : k \in ConfigKeys}
    /\ \A i \in 1..Len(doc.messages) :
         doc.messages[i].display = d =>
           /\ doc.messages[i].type = "data"
           /\ doc.messages[i].message = cur_message[d]

C10_SavedOnSuccess ==
  [][ (/\ Processed
       /\ Request.type \in {"control", "data"}
       /\ ~IsNone(listener'.reply)
       /\ ReportsSuccess(Get(listener'.reply)))
      => /\ ~IsNone(saved')
         /\ DocumentHolds(Get(saved'), config', current_message') ]_vars

\* a control request that changed an option has returned success: true
\* after an earlier request had already written the document
C10_Rewritten ==
  /\ listener.pc = "accept" /\ listener.index = 1 /\ listener.conns = 2
  /\ listener.messages = <<build_control_message("front", <<Option("backlight", TRUE)>>)>>
  /\ sent = Some(StatusReply(TRUE, None))
  /\ config["front"]["backlight"]
  /\ current_message["side"] = StaticMessage
  /\ ~IsNone(saved)

(***************************************************************************)
(* Vocabulary of the acceptor's properties.                                *)
(***************************************************************************)

\* the step that accepts a connection from a peer the filter turns away
TurnedAway ==
  /\ listener.pc = "accept"
  /\ listener'.conns = listener.conns + 1
  /\ Filtered(Get(listener'.peer))

QueryTypes ==
  {"query-config", "query-hwconfig", "query-message", "query-bitmap"}

(***************************************************************************)
(* C11: with an address prefix filter configured, a connection from a peer *)
(* whose address does not start with the prefix gets no reply and changes  *)
(* no display's config, message, schedule state or cached bitmap nor the   *)
(* document, whatever the peer sends; the acceptor is then back at         *)
(* accepting the next connection.                                          *)
(***************************************************************************)
C11_FilteredPeerIsIgnored ==
  [][ TurnedAway
      => /\ sent' = None
         /\ UNCHANGED <<config, update_data, current_message, current_bitmap,
                        saved>>
         /\ listener'.pc = "accept" ]_vars

(***************************************************************************)
(* C12: a request that is neither control nor data (the four queries, and  *)
(* any other type, which is answered success: false) leaves every          *)
(* display's config, Message, schedule state and cached bitmap and the     *)
(* document unchanged.                                                     *)
(***************************************************************************)
C12_QueriesChangeNothing ==
  [][ (/\ Processed
       /\ Request.type \notin {"control", "data"})
      => /\ UNCHANGED <<config, update_data, current_message, current_bitmap,
                        saved>>
         /\ Request.type \notin QueryTypes
              => /\ ~IsNone(listener'.reply)
                 /\ ReportsFailure(Get(listener'.reply)) ]_vars

\* a request of an unknown type was answered success: false on a server
\* whose state is no longer the initial one
C12_UnknownTypeRefused ==
  /\ listener.pc = "accept" /\ listener.index = 1
  /\ listener.messages = <<[type |-> "reset"]>>
  /\ sent = Some(StatusReply(FALSE, Some(<<"Invalid message type", "reset">>)))
  /\ current_message["front"] = RotatingMessage
  /\ update_data["front"].message_changed
  /\ ~IsNone(saved)

\* a connection that passed the filter has been served to its end
Served ==
  /\ listener.pc = "accept"
  /\ ~IsNone(listener.peer)
  /\ ~Filtered(Get(listener.peer))

(***************************************************************************)
(* C13: for a connection that passed the filter and whose payload decoded, *)
(* the acceptor sends exactly one reply, the reply of the last request     *)
(* processed, whatever the requests are: a query whose result is empty and *)
(* a request naming a display that does not exist included.                *)
(***************************************************************************)
C13_OneReplyPerConnection ==
  Served => /\ ~IsNone(sent)
            /\ sent = listener.reply

\* the last pass for display d called the setter of key with value and the
\* setter failed
SetterFailed(d, key, value) == InSeq(<<key, value, FALSE>>, hardware[d].set_calls)

(***************************************************************************)
(* C14: a key whose setter failed on a tick is dropped: the pass leaves    *)
(* config_keys_changed empty, so no later tick retries it by itself; when  *)
(* the client submits the same control change again, the key is pending    *)
(* again, so that the following tick invokes the setter once more.         *)
(***************************************************************************)
C14_ResubmitRetriesFailedKey ==
  [][ /\ \A d \in Displays :
           TickStep(d) => update_data'[d].config_keys_changed = <<>>
      /\ (/\ Processed
          /\ Request.type = "control"
          /\ Request.display \in Displays
          /\ ~HasUnknownKey(Request))
         => \A i \in 1..Len(Request.message) :
              SetterFailed(Request.display, Request.message[i][1],
                           Request.message[i][2])
                => InSeq(Request.message[i][1],
                         update_data'[Request.display].config_keys_changed) ]_vars

\* the step that ends a tick
TickEnds == loop.pc = "tick" /\ loop'.pc = "sleep"

(***************************************************************************)
(* C15: every tick runs to its end: when a tick ends, every registered     *)
(* display has had its pass in it and the minute record has been set to    *)
(* the minute of that tick, whatever earlier requests left behind.         *)
(***************************************************************************)
C15_TickCompletes ==
  [][ TickEnds
      => /\ loop'.index >= Len(DisplayOrder)
         /\ loop'.last_check_minute = Minute(loop.now_time) ]_vars

\* the pass for d registers dynamic submessages: it sees message_changed or
\* it rotates
Registers(d) ==
  /\ TickStep(d)
  /\ current_message[d].type \in {"single", "sequence"}
  /\ update_data[d].message_changed \/ hardware'[d].rotated

\* the indices of the Graphics submessages with a truthy refresh_interval
DynamicIndices(submessages) ==
  {i \in 0..(Len(submessages) - 1) :
     /\ submessages[i + 1].type = "graphics"
     /\ Truthy(GetRefreshInterval(submessages[i + 1]))}

(***************************************************************************)
(* C16: after a pass that registers dynamic submessages, the keys of       *)
(* dynamic_submessages are exactly the indices of the Graphics             *)
(* submessages of the now active content that have a truthy                *)
(* refresh_interval, each recorded with that interval and the tick's time; *)
(* no entry of the content active before is left.                          *)
(***************************************************************************)
C16_RegistrationFromScratch ==
  [][ \A d \in Displays :
        Registers(d) =>
          LET submessages == (Active(d).submessages)'
              dynamic == update_data'[d].dynamic_submessages
          IN /\ DOMAIN dynamic = DynamicIndices(submessages)
             /\ \A i \in DOMAIN dynamic :
                  dynamic[i] =
                    [refresh_interval |-> GetRefreshInterval(submessages[i + 1]),
                     last_refresh |-> loop.now_time] ]_vars

(***************************************************************************)
(* C17: a pass for a display with content renders and commits a frame if   *)
(* and only if message_changed is set, or an entry of dynamic_submessages  *)
(* is due, or the pass rotates; a pass for a display without content       *)
(* neither renders nor commits.                                            *)
(***************************************************************************)
C17_CommitsIffNeedsRefresh ==
  [][ \A d \in Displays :
        TickStep(d) =>
          IF current_message[d] = NullMessage
            THEN /\ ~Committed(hardware'[d])
                 /\ hardware'[d].drawn = <<>>
                 /\ current_bitmap'[d] = current_bitmap[d]
            ELSE Committed(hardware'[d])
                   <=> \/ update_data[d].message_changed
                       \/ hardware'[d].due
                       \/ hardware'[d].rotated ]_vars

(***************************************************************************)
(* C18: a pass calls the hardware setter once for each key of              *)
(* config_keys_changed, in order, with the value config holds for the key, *)
(* and leaves config_keys_changed empty, whether or not a setter failed    *)
(* and whether or not the display has content.                             *)
(***************************************************************************)
C18_SettersCalledForPendingKeys ==
  [][ \A d \in Displays :
        TickStep(d) =>
          LET pending == update_data[d].config_keys_changed
              calls == hardware'[d].set_calls
          IN /\ Len(calls) = Len(pending)
             /\ \A i \in 1..Len(pending) :
                  /\ calls[i][1] = pending[i]
                  /\ calls[i][2] = config[d][pending[i]]
             /\ update_data'[d].config_keys_changed = <<>> ]_vars

\* a display without content had two keys pending; the pass called both
\* setters, the second one failed, and nothing is pending any more
C18_SetterFailedWithoutContent ==
  /\ current_message["side"] = NullMessage
  /\ hardware["side"].set_calls =
       <<<<"inverting", TRUE, TRUE>>, <<"active", FALSE, FALSE>>>>
  /\ update_data["side"].config_keys_changed = <<>>
  /\ faults = 1

(***************************************************************************)
(* C19: when a pass refreshes, a Graphics submessage that fails (its call  *)
(* raises, or the renderer has no drawing function of that name) does not  *)
(* keep the other submessages of the active content from being drawn, and  *)
(* the frame is stored as the cached bitmap and handed to commit in that   *)
(* pass.                                                                   *)
(***************************************************************************)
C19_RenderFailureIsolated ==
  [][ \A d \in Displays :
        TickStep(d) /\ hardware'[d].refreshed =>
          LET submessages == (Active(d).submessages)'
          IN /\ \A i \in 0..(Len(submessages) - 1) :
                  \/ submessages[i + 1].type = "bitmap"
                  \/ /\ submessages[i + 1].type = "graphics"
                     /\ HasFunc(submessages[i + 1].func)
                  => Drew(d, i)
             /\ Committed(hardware'[d])
             /\ current_bitmap'[d] = Some(Get(hardware'[d].committed).frame) ]_vars

(***************************************************************************)
(* C20: message_changed of a display is false when its pass ends, on every *)
(* path: no content, a render, and an exception raised in the pass.        *)
(***************************************************************************)
C20_MessageChangedCleared ==
  [][ \A d \in Displays :
        TickStep(d) => ~update_data'[d].message_changed ]_vars

\* a data request gave one display the null Message, which set its
\* message_changed; the other display's render raised; the passes behind
\* both have left no message_changed set
C20_ClearedOnEveryPath ==
  /\ listener.pc = "accept"
  /\ listener.messages = <<build_data_message("front", NullMessage)>>
  /\ listener.reply = Some(StatusReply(TRUE, None))
  /\ current_message["front"] = NullMessage
  /\ current_message["side"] = BrokenMessage
  /\ hardware["side"].raised /\ hardware["side"].refreshed
  /\ ~hardware["side"].due
  /\ loop.pc = "sleep"
  /\ \A d \in Displays : ~update_data[d].message_changed

\* the step that accepts a connection whose peer closes it with payload
\* bytes missing
Truncated ==
  /\ listener.pc = "accept"
  /\ listener'.conns = listener.conns + 1
  /\ listener'.missing > 0

(***************************************************************************)
(* C21: decoding terminates: when the peer closes the connection after     *)
(* fewer payload bytes than the length header declares, the receive fails, *)
(* only that connection is dropped (no reply, no state changed), and the   *)
(* acceptor is back at accepting the next connection.                      *)
(***************************************************************************)
C21_TruncatedPayloadDropped ==
  [][ Truncated
      => /\ listener'.pc = "accept"
         /\ sent' = None
         /\ UNCHANGED <<config, update_data, current_message, current_bitmap,
                        saved>> ]_vars

(***************************************************************************)
(* C24: in every reachable state the keys of config, current_message,      *)
(* update_data and current_bitmap are the display ids registered at        *)
(* startup: no request adds or removes an entry, a control or data request *)
(* naming a display that does not exist included.                          *)
(***************************************************************************)
C24_KeySetsAreTheRegistry ==
  /\ DOMAIN config = Displays
  /\ DOMAIN current_message = Displays
  /\ DOMAIN update_data = Displays
  /\ DOMAIN current_bitmap = Displays

\* position and switch time are usable for the Sequence: an index into its
\* messages, and a time
Resolvable(upd_d, message) ==
  /\ ~IsNone(upd_d.sequence_cur_pos)
  /\ Get(upd_d.sequence_cur_pos) \in 0..(Len(message.messages) - 1)
  /\ ~IsNone(upd_d.sequence_last_switched)

(***************************************************************************)
(* C25: with requests and passes atomic, whenever a pass resolves the      *)
(* active message of a non-empty Sequence, sequence_cur_pos is an index    *)
(* into its messages and sequence_last_switched is set: where the pass     *)
(* first resolves it (after the reset for a changed message) and where it  *)
(* resolves it again after a rotation; the pass does not raise.            *)
(***************************************************************************)
C25_SequencePositionValid ==
  [][ \A d \in Displays :
        (/\ TickStep(d)
         /\ current_message[d].type = "sequence"
         /\ Len(current_message[d].messages) > 0)
        => /\ Resolvable(ResetSequence(update_data[d], current_message[d],
                                       loop.now_time),
                         current_message[d])
           /\ Resolvable(update_data'[d], current_message[d])
           /\ ~hardware'[d].raised ]_vars

\* a Sequence of three had rotated to its last message when a data request
\* replaced it by a Sequence of two: the scheduler is at the pass that
\* resolves it, with the position of the old Sequence still in place
C25_ReassignedMidRotation ==
  /\ current_message["front"] = RotatingMessage
  /\ update_data["front"].message_changed
  /\ update_data["front"].sequence_cur_pos = Some(2)
  /\ loop.pc = "tick" /\ loop.index = 0

(***************************************************************************)
(* C22: with a control request dispatched at any point of a pass, no       *)
(* pending key is lost: every key that is in config_keys_changed when the  *)
(* pass clears it has been handed to the setter in that pass.              *)
(***************************************************************************)
C22_NoPendingKeyLost ==
  [][ AtPhase("clear") /\ loop'.phase = "body"
      => LET pending == update_data[PassDisplay].config_keys_changed
         IN \A i \in 1..Len(pending) :
              /\ i <= Len(loop.set_calls)
              /\ loop.set_calls[i][1] = pending[i] ]_vars

(***************************************************************************)
(* C23: with a data request dispatched at any point of a pass, a           *)
(* message_changed mark is never cleared without a render of the Message   *)
(* that set it: when the pass clears a set mark, the pass has rendered and *)
(* committed the display's current Message.                                *)
(***************************************************************************)
C23_DirtyMarkClearedAfterRender ==
  [][ (/\ AtPhase("finish") /\ loop'.phase = "bind"
       /\ update_data[PassDisplay].message_changed
       /\ current_message[PassDisplay] # NullMessage)
      => /\ loop.message = Some(current_message[PassDisplay])
         /\ hardware[PassDisplay].refreshed
         /\ Committed(hardware[PassDisplay]) ]_vars

====
